---- MODULE Spec2Model ----
(***************************************************************************)
(* Bearer-token authentication (main.py verify_token, dependencies.py      *)
(* verify_token) and the log_request wrapper around the protected          *)
(* endpoints of main.py.                                                   *)
(*                                                                         *)
(* Python strings are sequences of one-character strings, so that split,   *)
(* lower, replace, startswith and slicing are computed as Python computes  *)
(* them.                                                                   *)
(***************************************************************************)
EXTENDS Integers, Sequences, FiniteSets, TLC

\* ------------------------------------------------------------------ bounds

\* Number of requests in flight in one behaviour.
NumReqs == 2
\* Last value of the clock.
MaxClock == 1
\* Number of calls of the signed-token verify_token in one behaviour.
MaxSigned == 2

\* token[-4:] and len(token) > 4
MaskLen == 4
\* HTTPException(status_code=401, ...)
Unauthorized == 401

\* ----------------------------------------------------------- Python strings

Whitespace == {" ", "\t"}

UpperChars == <<"A", "B", "C", "D", "E", "F", "G", "H", "I", "J", "K", "L", "M",
                "N", "O", "P", "Q", "R", "S", "T", "U", "V", "W", "X", "Y", "Z">>
LowerChars == <<"a", "b", "c", "d", "e", "f", "g", "h", "i", "j", "k", "l", "m",
                "n", "o", "p", "q", "r", "s", "t", "u", "v", "w", "x", "y", "z">>

\* str.lower() of one character
LowerChar(c) ==
    IF \E i \in 1..Len(UpperChars) : UpperChars[i] = c
    THEN LowerChars[CHOOSE i \in 1..Len(UpperChars) : UpperChars[i] = c]
    ELSE c

\* s.lower()
Lower(s) == [i \in 1..Len(s) |-> LowerChar(s[i])]

RECURSIVE SplitFrom(_, _, _, _)
SplitFrom(s, i, cur, acc) ==
    IF i > Len(s)
    THEN IF cur = <<>> THEN acc ELSE Append(acc, cur)
    ELSE IF s[i] \in Whitespace
         THEN SplitFrom(s, i + 1, <<>>, IF cur = <<>> THEN acc ELSE Append(acc, cur))
         ELSE SplitFrom(s, i + 1, Append(cur, s[i]), acc)

\* s.split(): the maximal runs of non-whitespace characters
Split(s) == SplitFrom(s, 1, <<>>, <<>>)

RECURSIVE SplitOnFrom(_, _, _, _, _)
SplitOnFrom(s, sep, i, cur, acc) ==
    IF i > Len(s)
    THEN Append(acc, cur)
    ELSE IF s[i] = sep
         THEN SplitOnFrom(s, sep, i + 1, <<>>, Append(acc, cur))
         ELSE SplitOnFrom(s, sep, i + 1, Append(cur, s[i]), acc)

\* s.split(sep) for a one-character sep: empty strings are kept
SplitOn(s, sep) == SplitOnFrom(s, sep, 1, <<>>, <<>>)

\* s.startswith(p)
StartsWith(s, p) == Len(s) >= Len(p) /\ SubSeq(s, 1, Len(p)) = p

RECURSIVE ReplaceFrom(_, _, _, _)
ReplaceFrom(s, old, new, i) ==
    IF i > Len(s)
    THEN <<>>
    ELSE IF i + Len(old) - 1 <= Len(s) /\ SubSeq(s, i, i + Len(old) - 1) = old
         THEN new \o ReplaceFrom(s, old, new, i + Len(old))
         ELSE <<s[i]>> \o ReplaceFrom(s, old, new, i + 1)

\* s.replace(old, new), old non-empty
Replace(s, old, new) == ReplaceFrom(s, old, new, 1)

\* s[-n:]
LastN(s, n) == IF Len(s) <= n THEN s ELSE SubSeq(s, Len(s) - n + 1, Len(s))

\* ---------------------------------------------------------------- literals

Stars3 == <<"*", "*", "*">>
Stars4 == <<"*", "*", "*", "*">>
StrNone == <<"N", "o", "n", "e">>
StrBearerLower == <<"b", "e", "a", "r", "e", "r">>
StrBearerSpace == <<"B", "e", "a", "r", "e", "r", " ">>

\* os.getenv("API_TOKEN", "test-token-12345"): the default
DefaultToken ==
    <<"t", "e", "s", "t", "-", "t", "o", "k", "e", "n", "-", "1", "2", "3", "4", "5">>
\* a short secret set in the environment
ShortToken == <<"a", "b", "c", "d">>

\* The values API_TOKEN may be configured with.
Secrets == {DefaultToken, ShortToken}

\* ------------------------------------------------- requests the clients send

WrongSecret == <<"w", "r", "o", "n", "g", "-", "s", "e", "c", "r", "e", "t">>
Abc123 == <<"a", "b", "c", "1", "2", "3">>
\* a token that begins with the short secret
Abcd12 == ShortToken \o <<"1", "2">>

Tokens == {DefaultToken, ShortToken, WrongSecret, Abc123, Abcd12}

Schemes == {<<"B", "e", "a", "r", "e", "r">>, StrBearerLower, <<"T", "o", "k", "e", "n">>}

Separators == {<<" ">>, <<"\t">>}

\* An Authorization header: absent (Header(None)) or present with a value.
Absent == [present |-> FALSE, value |-> <<>>]
Present(v) == [present |-> TRUE, value |-> v]

HeaderValues ==
    {s \o sep \o t : s \in Schemes, sep \in Separators, t \in Tokens}
    \cup {<<>>,
          <<" ">>,
          <<"B", "e", "a", "r", "e", "r">>,
          StrBearerSpace,
          StrBearerSpace \o ShortToken \o <<" ">> \o <<"x", "y">>,
          StrBearerSpace \o <<" ">> \o ShortToken}

Headers == {Absent} \cup {Present(v) : v \in HeaderValues}

\* The headers sent while several requests are in flight: one of each outcome
\* per configured secret.
PipelineHeaders ==
    {Absent,
     Present(<<"T", "o", "k", "e", "n", " ">> \o Abc123),
     Present(StrBearerSpace \o WrongSecret),
     Present(StrBearerSpace \o DefaultToken),
     Present(StrBearerLower \o <<" ">> \o ShortToken)}

\* ------------------------------------------------ verify_token (main.py)

\* f"***{token[-4:] if len(token) > 4 else '****'}"
MaskedInAuth(token) ==
    Stars3 \o (IF Len(token) > MaskLen THEN LastN(token, MaskLen) ELSE Stars4)

\* Mutant of Rejected: the wrong status code.
RejectedForbidden(reason, detail) ==
    [kind |-> "Rejected", reason |-> reason, status_code |-> 403,
     detail |-> detail, headers |-> [WWWAuthenticate |-> "Bearer"]]

\* raise HTTPException(status_code=401, detail=..., headers={"WWW-Authenticate": "Bearer"})
Rejected(reason, detail) ==
    [kind |-> "Rejected", reason |-> reason, status_code |-> Unauthorized,
     detail |-> detail, headers |-> [WWWAuthenticate |-> "Bearer"]]

Authenticated(identity) == [kind |-> "Authenticated", identity |-> identity]

\* A line of the logger: level, the fixed part of the message and the
\* interpolated part.
LogLine(level, event, msg, text) ==
    [level |-> level, event |-> event, msg |-> msg, text |-> text]

\* if not authorization
IsMissing(authorization) == ~authorization.present \/ authorization.value = <<>>

\* Mutant of IsMalformed: extra parts after the token are let through.
IsMalformedLoose(parts) == Len(parts) < 2 \/ Lower(parts[1]) # StrBearerLower

\* if len(parts) != 2 or parts[0].lower() != "bearer"
IsMalformed(parts) == Len(parts) # 2 \/ Lower(parts[1]) # StrBearerLower

\* Mutant of TokenMatches: the token only has to begin with the secret.
TokenMatchesPrefix(token, secret) == StartsWith(token, secret)

\* token != API_TOKEN, negated
TokenMatches(token, secret) == token = secret

\* The dependency: the outcome (the returned token or the raised
\* HTTPException) and the line it logs.
verify_token(authorization, secret) ==
    IF IsMissing(authorization)
    THEN [outcome |-> Rejected("MissingHeader",
              "Authorization header missing. Use: 'Authorization: Bearer your-token'"),
          line |-> LogLine("WARNING", "MissingHeader",
              "Request without Authorization header", <<>>)]
    ELSE LET parts == Split(authorization.value) IN
         IF IsMalformed(parts)
         THEN [outcome |-> Rejected("MalformedHeader",
                   "Invalid authorization header. Format: 'Bearer <token>'"),
               line |-> LogLine("WARNING", "MalformedHeader",
                   "Invalid authorization format: ", authorization.value)]
         ELSE LET token == parts[2] IN
              IF ~TokenMatches(token, secret)
              THEN [outcome |-> Rejected("InvalidToken", "Invalid token"),
                    line |-> LogLine("WARNING", "InvalidToken",
                        "Invalid token attempt: ", MaskedInAuth(token))]
              ELSE [outcome |-> Authenticated(token),
                    line |-> LogLine("INFO", "Verified",
                        "Token verified: ", MaskedInAuth(token))]

\* ------------------------------------------------ verify_token (dependencies.py)

\* The signed-token dependency: what it raises, or its call of
\* decode_access_token and the token passed to it.
dependencies_verify_token(authorization) ==
    IF ~authorization.present \/ authorization.value = <<>>
       \/ ~StartsWith(authorization.value, StrBearerSpace)
    THEN [kind |-> "Rejected", status_code |-> Unauthorized,
          detail |-> "Missing or invalid Authorization header"]
    ELSE [kind |-> "Decode", token |-> SplitOn(authorization.value, " ")[2]]

\* ------------------------------------------------------------- the endpoints

Endpoints == {"protected_endpoint", "protected_post_endpoint", "admin_endpoint"}

\* Python values handed to a handler: the str verify_token returns, a request body.
PyStr(s) == [type |-> "str", val |-> s]
PyDict(d) == [type |-> "dict", val |-> d]
PyNone == [type |-> "NoneType"]

\* The JSON bodies a client posts to /protected/data.
Datas == {PyDict([k |-> "v1"]), PyDict([k |-> "v2"])}

Return(value) == [kind |-> "return", value |-> value]
Raise(type, arg) == [kind |-> "raise", value |-> [type |-> type, args |-> <<arg>>]]

\* d.get(key)
Get(d, key) == IF key \in DOMAIN d.val THEN d.val[key] ELSE PyNone

\* protected_endpoint(request, token_data): token_data.get("sub")
protected_endpoint(token_data) ==
    IF token_data.type = "dict"
    THEN Return([message |-> "JWT verified!", user |-> Get(token_data, "sub"),
                 token_valid |-> TRUE])
    ELSE Raise("AttributeError", "'str' object has no attribute 'get'")

\* protected_post_endpoint(request, data, token)
protected_post_endpoint(data, token) ==
    Return([message |-> "Data received successfully", received_data |-> data,
            auth_required |-> TRUE,
            masked_token |-> Stars3 \o LastN(token.val, MaskLen)])

\* admin_endpoint(request, token)
admin_endpoint(token) ==
    Return([message |-> "Welcome to admin area", auth_required |-> TRUE,
            access_level |-> "admin"])

\* await func(*args, **kwargs) for the endpoint the route names
CallEndpoint(name, data, token) ==
    CASE name = "protected_endpoint" -> protected_endpoint(token)
      [] name = "protected_post_endpoint" -> protected_post_endpoint(data, token)
      [] name = "admin_endpoint" -> admin_endpoint(token)

\* str(e) of an exception built with at most one argument
StrOfError(e) == IF Len(e.args) = 0 THEN "" ELSE e.args[1]

\* ------------------------------------------------------------------- state

VARIABLES
    API_TOKEN,   \* the configured secret
    req,         \* per request: the Authorization header, the route, the connection, the body
    pc,          \* per request: where it is
    outcome,     \* per request: what verify_token returned or raised
    frame,       \* per invocation of wrapper: its locals client_ip, masked_token, start
    hres,        \* per invocation: what the wrapped endpoint returned or raised
    wres,        \* per invocation: what wrapper returned or raised to its caller
    invoked,     \* per request: how many times the endpoint function ran
    log,         \* per request: the lines handed to logger on its behalf, in order
    now,         \* time.time()
    signed       \* the calls of dependencies.verify_token made so far

vars == <<API_TOKEN, req, pc, outcome, frame, hres, wres, invoked, log, now, signed>>

Reqs == 1..NumReqs

\* request.client: None, or an address with a host
NoClient == [present |-> FALSE, host |-> ""]
Clients == {NoClient, [present |-> TRUE, host |-> "10.0.0.1"]}

NoRequest == [authorization |-> Absent, endpoint |-> "", client |-> NoClient, data |-> PyNone]
NoOutcome == [kind |-> "none"]
NoFrame == [client_ip |-> "", masked_token |-> <<>>, start |-> 0]
NoResult == [kind |-> "none"]

Init ==
    /\ API_TOKEN \in Secrets
    /\ req = [r \in Reqs |-> NoRequest]
    /\ pc = [r \in Reqs |-> "idle"]
    /\ outcome = [r \in Reqs |-> NoOutcome]
    /\ frame = [r \in Reqs |-> NoFrame]
    /\ hres = [r \in Reqs |-> NoResult]
    /\ wres = [r \in Reqs |-> NoResult]
    /\ invoked = [r \in Reqs |-> 0]
    /\ log = [r \in Reqs |-> <<>>]
    /\ now = 0
    /\ signed = <<>>

\* logger.info / warning / error: the line, with the function that logged it,
\* is appended to the sink. The sink is kept as its projection on each
\* request; the order of the lines of different requests is not kept.
Emit(src, r, line) ==
    [log EXCEPT ![r] = Append(@, [src |-> src] @@ line)]

\* Mutant of AfterDependency: a wrong token is logged but the route goes on.
AfterDependencyLenient(o) ==
    IF o.kind = "Rejected" /\ o.reason # "InvalidToken" THEN "rejected" ELSE "authed"

\* Depends(verify_token): the endpoint function is called only with the value
\* the dependency returned; an HTTPException it raised is the response.
AfterDependency(o) == IF o.kind = "Authenticated" THEN "authed" ELSE "rejected"

\* A request for a protected route arrives and FastAPI resolves
\* Depends(verify_token) before anything else of the route runs. The three
\* routes declare the same dependency; which one it is, the connection and
\* the body are drawn where the code first reads them.
Request(r, h) ==
    /\ pc[r] = "idle"
    \* requests are numbered in the order they arrive
    /\ \A q \in Reqs : q < r => pc[q] # "idle"
    /\ LET res == verify_token(h, API_TOKEN) IN
       /\ outcome' = [outcome EXCEPT ![r] = res.outcome]
       /\ log' = Emit("verify_token", r, res.line)
       /\ pc' = [pc EXCEPT ![r] = AfterDependency(res.outcome)]
    /\ req' = [req EXCEPT ![r].authorization = h]
    /\ UNCHANGED <<API_TOKEN, frame, hres, wres, invoked, now, signed>>

\* request.headers.get("Authorization", "None")
HeaderOrNone(h) == IF h.present THEN h.value ELSE StrNone

\* request.client.host if request and request.client else "unknown"
ClientIp(c) == IF c.present THEN c.host ELSE "unknown"

\* f"***{token[-4:]}" if token and len(token) > 4 else "None", for
\* token = request.headers.get("Authorization", "None").replace("Bearer ", "")
MaskedInWrapper(h) ==
    LET token == Replace(HeaderOrNone(h), StrBearerSpace, <<>>) IN
    IF token # <<>> /\ Len(token) > MaskLen
    THEN Stars3 \o LastN(token, MaskLen)
    ELSE StrNone

\* Mutant of StartOf: start is shared by the invocations, the latest one wins.
StartOfLatest(r) ==
    LET entered == {q \in Reqs : pc[q] \in {"awaiting", "responded"}} IN
    CHOOSE t \in {frame[q].start : q \in entered} :
        \A q \in entered : frame[q].start <= t

\* start = time.time(), a local of the invocation
StartOf(r) == frame[r].start

\* client_ip, a local of the invocation
ClientIpOf(r) == frame[r].client_ip

\* wrapper, up to the suspension of the awaited endpoint function: the
\* Received line, the start time, the call of func.
WrapperEnter(r, e, c) ==
    /\ pc[r] = "authed"
    /\ LET ip == ClientIp(c)
           masked == MaskedInWrapper(req[r].authorization) IN
       /\ frame' = [frame EXCEPT ![r] =
                       [client_ip |-> ip, masked_token |-> masked, start |-> now]]
       /\ log' = Emit("log_request", r,
                      [level |-> "INFO", event |-> "Received",
                       endpoint |-> e, ip |-> ip, masked_token |-> masked])
    /\ req' = [req EXCEPT ![r].endpoint = e, ![r].client = c]
    /\ invoked' = [invoked EXCEPT ![r] = @ + 1]
    /\ pc' = [pc EXCEPT ![r] = "awaiting"]
    /\ UNCHANGED <<API_TOKEN, outcome, hres, wres, now, signed>>

\* Mutant of WrapperResult: the except block does not re-raise.
WrapperResultSwallow(result) ==
    IF result.kind = "raise" THEN [kind |-> "return", value |-> PyNone] ELSE result

\* What wrapper hands to its caller for a handler result: return result / raise.
WrapperResult(result) == result

\* The line wrapper logs after the await.
TerminalLine(r, result) ==
    IF result.kind = "return"
    THEN [level |-> "INFO", event |-> "Succeeded", endpoint |-> req[r].endpoint,
          duration |-> now - StartOf(r), ip |-> ClientIpOf(r)]
    ELSE [level |-> "ERROR", event |-> "Failed", endpoint |-> req[r].endpoint,
          duration |-> now - StartOf(r), error |-> StrOfError(result.value)]

\* The awaited endpoint function finishes, with the value of
\* Depends(verify_token) and, for the POST route, the body; wrapper continues
\* in the same step of the event loop: the try block's tail or the except block.
WrapperExit(r, d) ==
    /\ pc[r] = "awaiting"
    /\ d \in (IF req[r].endpoint = "protected_post_endpoint" THEN Datas ELSE {PyNone})
    /\ LET result == CallEndpoint(req[r].endpoint, d, PyStr(outcome[r].identity)) IN
       /\ hres' = [hres EXCEPT ![r] = result]
       /\ log' = Emit("log_request", r, TerminalLine(r, result))
       /\ wres' = [wres EXCEPT ![r] = WrapperResult(result)]
    /\ req' = [req EXCEPT ![r].data = d]
    /\ pc' = [pc EXCEPT ![r] = "responded"]
    /\ UNCHANGED <<API_TOKEN, outcome, frame, invoked, now, signed>>

\* Time passes, also while an endpoint function is awaited.
Tick ==
    /\ now < MaxClock
    /\ now' = now + 1
    /\ UNCHANGED <<API_TOKEN, req, pc, outcome, frame, hres, wres, invoked, log, signed>>

Next ==
    \/ \E r \in Reqs, h \in PipelineHeaders : Request(r, h)
    \/ \E r \in Reqs, e \in Endpoints, c \in Clients : WrapperEnter(r, e, c)
    \/ \E r \in Reqs, d \in Datas \cup {PyNone} : WrapperExit(r, d)
    \/ Tick

Spec == Init /\ [][Next]_vars

\* The dependency alone, over every header, one request after the other.
NextAuth == \E r \in Reqs, h \in Headers : Request(r, h)

SpecAuth == Init /\ [][NextAuth]_vars

\* A call of the signed-token dependency, with the header it is given.
SignedRequest(h) ==
    /\ Len(signed) < MaxSigned
    /\ signed' = Append(signed, [authorization |-> h, result |-> dependencies_verify_token(h)])
    /\ UNCHANGED <<API_TOKEN, req, pc, outcome, frame, hres, wres, invoked, log, now>>

NextSigned == \E h \in Headers : SignedRequest(h)

SpecSigned == Init /\ [][NextSigned]_vars

\* ------------------------------------------------------- reading a header

\* The positions where a maximal run of non-whitespace characters starts.
WordStarts(s) ==
    {i \in 1..Len(s) : s[i] \notin Whitespace /\ (i = 1 \/ s[i - 1] \in Whitespace)}

\* The last position of the run that starts at i.
WordEnd(s, i) ==
    CHOOSE j \in i..Len(s) :
        /\ \A k \in i..j : s[k] \notin Whitespace
        /\ (j = Len(s) \/ s[j + 1] \in Whitespace)

\* The runs of s, as a set of <<start, word>>.
WordsOf(s) == {<<i, SubSeq(s, i, WordEnd(s, i))>> : i \in WordStarts(s)}

FirstWord(s) ==
    LET i == CHOOSE i \in WordStarts(s) : \A j \in WordStarts(s) : i <= j
    IN SubSeq(s, i, WordEnd(s, i))

LastWord(s) ==
    LET i == CHOOSE i \in WordStarts(s) : \A j \in WordStarts(s) : j <= i
    IN SubSeq(s, i, WordEnd(s, i))

\* "bearer" in any mix of cases
IsBearerWord(w) ==
    /\ Len(w) = 6
    /\ w[1] \in {"b", "B"} /\ w[2] \in {"e", "E"} /\ w[3] \in {"a", "A"}
    /\ w[4] \in {"r", "R"} /\ w[5] \in {"e", "E"} /\ w[6] \in {"r", "R"}

HeaderMissing(h) == ~h.present \/ h.value = <<>>

\* 'Bearer <token>': exactly two words, the first one the scheme
WellFormed(h) ==
    /\ ~HeaderMissing(h)
    /\ Cardinality(WordStarts(h.value)) = 2
    /\ IsBearerWord(FirstWord(h.value))

\* The credential of a well-formed header
CredentialOf(h) == LastWord(h.value)

\* w occurs in text
Occurs(w, text) ==
    \E i \in 1..(Len(text) - Len(w) + 1) : SubSeq(text, i, i + Len(w) - 1) = w

\* text shows nothing of a credential of at most MaskLen characters, and of a
\* longer one no piece longer than MaskLen characters
ShowsOnlyMasked(cred, text) ==
    IF Len(cred) <= MaskLen
    THEN ~Occurs(cred, text)
    ELSE \A i \in 1..(Len(cred) - MaskLen) : ~Occurs(SubSeq(cred, i, i + MaskLen), text)

LinesOf(r, src) == {i \in DOMAIN log[r] : log[r][i].src = src}
EventsOf(r, events) == {i \in DOMAIN log[r] : log[r][i].event \in events}

\* --------------------------------------------------------------------- C1

\* C1: static-secret verify_token rejects an absent or empty header as
\* MissingHeader, and a non-empty header that is not two words with the scheme
\* 'bearer' (in any case) first as MalformedHeader; neither is ever
\* authenticated or rejected as InvalidToken.
C1_ShapeDecidesRejection ==
    \A r \in Reqs : pc[r] # "idle" =>
        LET h == req[r].authorization
            o == outcome[r] IN
        /\ HeaderMissing(h) => o.kind = "Rejected" /\ o.reason = "MissingHeader"
        /\ (~HeaderMissing(h) /\ ~WellFormed(h)) =>
               o.kind = "Rejected" /\ o.reason = "MalformedHeader"

C1_Witness ==
    \E r, q \in Reqs :
        /\ req[r].authorization = Present(<<>>)
        /\ pc[r] = "rejected" /\ outcome[r].reason = "MissingHeader"
        /\ req[q].authorization = Present(StrBearerSpace \o ShortToken \o <<" ", "x", "y">>)
        /\ pc[q] = "rejected" /\ outcome[q].reason = "MalformedHeader"

\* --------------------------------------------------------------------- C2

\* C2: for a well-formed header 'Bearer <token>', verify_token authenticates
\* exactly when the token equals API_TOKEN, the identity being the token, and
\* rejects every other token as InvalidToken, whatever requests came before.
C2_TokenDecides ==
    \A r \in Reqs :
        (pc[r] # "idle" /\ WellFormed(req[r].authorization)) =>
            LET tok == CredentialOf(req[r].authorization) IN
            IF tok = API_TOKEN
            THEN outcome[r] = [kind |-> "Authenticated", identity |-> tok]
            ELSE outcome[r].kind = "Rejected" /\ outcome[r].reason = "InvalidToken"

C2_Witness ==
    \E r, q \in Reqs :
        /\ r < q
        /\ API_TOKEN = ShortToken
        /\ req[r].authorization = Present(StrBearerSpace \o Abcd12)
        /\ pc[r] = "rejected" /\ outcome[r].reason = "InvalidToken"
        /\ req[q].authorization = Present(StrBearerSpace \o ShortToken)
        /\ outcome[q].kind = "Authenticated"

\* --------------------------------------------------------------------- C3

RejectionShape(o) ==
    /\ o.status_code = 401
    /\ o.headers = [WWWAuthenticate |-> "Bearer"]

ReceivedOf(r) == EventsOf(r, {"Received"})
TerminalOf(r) == EventsOf(r, {"Succeeded", "Failed"})

\* In every state: one Received line once wrapper was entered, none before;
\* one terminal line once it returned or raised, none before; the endpoint
\* function starts only after the Received line; the terminal line follows
\* the Received line and the end of the endpoint function, and is Succeeded
\* exactly when the function returned.
C4_State ==
    \A r \in Reqs :
        /\ Cardinality(ReceivedOf(r)) = (IF pc[r] \in {"awaiting", "responded"} THEN 1 ELSE 0)
        /\ Cardinality(TerminalOf(r)) = (IF pc[r] = "responded" THEN 1 ELSE 0)
        /\ invoked[r] <= Cardinality(ReceivedOf(r))
        /\ \A i \in ReceivedOf(r), j \in TerminalOf(r) : i < j
        /\ \A j \in TerminalOf(r) :
               /\ hres[r].kind \in {"return", "raise"}
               /\ (log[r][j].event = "Succeeded") <=> (hres[r].kind = "return")

\* In every step: an invocation that passes its await logs a duration counted
\* from the time it was itself entered, and the client IP of its own request.
C4_Step ==
    \A r \in Reqs :
        /\ (pc[r] = "authed" /\ pc'[r] = "awaiting") => frame'[r].start = now
        /\ (pc[r] = "awaiting" /\ pc'[r] = "responded") =>
               LET line == log'[r][Len(log'[r])] IN
               /\ line.event \in {"Succeeded", "Failed"}
               /\ line.duration = now - frame[r].start
               /\ line.event = "Succeeded" => line.ip = ClientIp(req[r].client)

\* C4: each invocation of wrapper emits exactly one Received line, before the
\* endpoint function starts, and exactly one terminal line (Succeeded or
\* Failed) after it finished, also when invocations interleave at the await,
\* each with its own start time and client IP.
C4_ReceivedThenTerminal == [](C4_State) /\ [][C4_Step]_vars

C4_Witness ==
    \E r, q \in Reqs :
        /\ pc[r] = "responded" /\ pc[q] = "awaiting"
        /\ frame[r].start < frame[q].start
        /\ frame[r].client_ip # frame[q].client_ip
        /\ log[r][Len(log[r])].event = "Succeeded"
        /\ log[r][Len(log[r])].duration > 0

\* --------------------------------------------------------------------- C5

\* C5: wrapper hands the endpoint function's outcome on unchanged: a returned
\* value is returned after a Succeeded line, a raised error is raised again
\* after a Failed line that carries str(e).
C5_OutcomeUnchanged ==
    \A r \in Reqs : pc[r] = "responded" =>
        LET line == log[r][Len(log[r])] IN
        /\ hres[r].kind \in {"return", "raise"}
        /\ wres[r] = hres[r]
        /\ hres[r].kind = "return" => line.event = "Succeeded"
        /\ hres[r].kind = "raise" =>
               line.event = "Failed" /\ line.error = hres[r].value.args[1]

C5_Witness ==
    \E r, q \in Reqs :
        /\ pc[r] = "responded" /\ wres[r].kind = "raise"
        /\ wres[r].value.type = "AttributeError"
        /\ pc[q] = "responded" /\ wres[q].kind = "return"
        /\ req[q].endpoint = "protected_post_endpoint"
        /\ wres[q].value.received_data = PyDict([k |-> "v2"])

\* --------------------------------------------------------------------- C6

\* C6: a request to any protected route with 'Bearer test-token-12345', the
\* configured secret, is authenticated, its endpoint function runs once and
\* returns, and the log holds one Received line with ***2345 and one
\* Succeeded line, no Failed line.
C6_SuccessScenario ==
    \A r \in Reqs :
        (API_TOKEN = DefaultToken
         /\ pc[r] # "idle"
         /\ req[r].authorization = Present(StrBearerSpace \o DefaultToken)) =>
            /\ outcome[r].kind = "Authenticated"
            /\ pc[r] = "responded" =>
                   /\ invoked[r] = 1
                   /\ wres[r].kind = "return"
                   /\ Cardinality(ReceivedOf(r)) = 1
                   /\ \A i \in ReceivedOf(r) :
                          log[r][i].masked_token = <<"*", "*", "*", "2", "3", "4", "5">>
                   /\ Cardinality(EventsOf(r, {"Succeeded"})) = 1
                   /\ EventsOf(r, {"Failed"}) = {}

\* --------------------------------------------------------------------- C7

\* C7: the masked token of a Received line shows nothing of a credential of
\* at most 4 characters and is *** and the last 4 characters of a longer one,
\* for every header verify_token accepts.
C7_ReceivedMasksCredential ==
    \A r \in Reqs : \A i \in ReceivedOf(r) :
        LET cred == CredentialOf(req[r].authorization)
            masked == log[r][i].masked_token IN
        IF Len(cred) <= MaskLen
        THEN ~Occurs(cred, masked)
        ELSE masked = Stars3 \o LastN(cred, MaskLen)

\* --------------------------------------------------------------------- C8

\* The words of a header after its first one.
PresentedCredentials(h) ==
    IF HeaderMissing(h)
    THEN {}
    ELSE {p[2] : p \in {x \in WordsOf(h.value) : \E y \in WordsOf(h.value) : y[1] < x[1]}}

\* C8: every outcome of verify_token logs a line, and no line it logs shows
\* more of a presented credential than its masked form.
C8_LogsOnlyMasked ==
    \A r \in Reqs : pc[r] # "idle" =>
        /\ LinesOf(r, "verify_token") # {}
        /\ \A i \in LinesOf(r, "verify_token") :
               \A cred \in PresentedCredentials(req[r].authorization) :
                   ShowsOnlyMasked(cred, log[r][i].text)

\* --------------------------------------------------------------------- C9

\* C9: a request verify_token rejected never reaches wrapper or the endpoint
\* function and stays rejected; wrapper and the endpoint function run only
\* for a request verify_token authenticated before.
C9_RejectedNeverRuns ==
    \A r \in Reqs :
        /\ outcome[r].kind = "Rejected" =>
               /\ pc[r] = "rejected"
               /\ invoked[r] = 0
               /\ LinesOf(r, "log_request") = {}
               /\ hres[r].kind = "none" /\ wres[r].kind = "none"
        /\ (invoked[r] > 0 \/ LinesOf(r, "log_request") # {}) =>
               /\ outcome[r].kind = "Authenticated"
               /\ log[r][1].src = "verify_token" /\ log[r][1].event = "Verified"

C9_Witness ==
    \E r, q \in Reqs :
        /\ pc[r] = "rejected" /\ outcome[r].reason = "InvalidToken"
        /\ pc[q] = "responded" /\ invoked[q] = 1
        /\ outcome[q].kind = "Authenticated"

\* -------------------------------------------------------------------- C10

\* C10: the signed-token verify_token rejects a missing header and a
\* malformed header, with different reasons, and passes to
\* decode_access_token only the second word of a well-formed header.
C10_SignedHeaderRules ==
    \A i \in DOMAIN signed :
        LET h == signed[i].authorization
            res == signed[i].result IN
        /\ ~WellFormed(h) => res.kind = "Rejected"
        /\ res.kind = "Decode" => WellFormed(h) /\ res.token = CredentialOf(h)
        /\ \A j \in DOMAIN signed :
               (HeaderMissing(h) /\ ~HeaderMissing(signed[j].authorization)
                /\ res.kind = "Rejected" /\ signed[j].result.kind = "Rejected")
               => res.detail # signed[j].result.detail

====
